---- MODULE Spec2Model ----
(***************************************************************************)
(* Model of stock_market_game.py: a Streamlit page that walks one user     *)
(* session through four fixed trading scenarios.  Every user interaction   *)
(* re-executes the whole script against the session's st.session_state;    *)
(* the page the user sees is the list of elements the last completed run   *)
(* of the script emitted.                                                  *)
(***************************************************************************)
EXTENDS Integers, Sequences, FiniteSets, TLC

VARIABLES
    session_state,  \* st.session_state: key -> value ("balance", "scenario_index")
    entry_widget,   \* value of the radio keyed f"entry_{i}", for i = 0..3
    exit_widget,    \* value of the radio keyed f"exit_{i}", for i = 0..3
    expanded,       \* concept expanders the user has opened (browser-side only)
    page,           \* elements on the page after the last completed script run
    last_op,        \* the user interaction handled last
    history         \* the decisions submitted so far, in order

\* Several sessions served by the one process (used by SpecSessions only)
VARIABLES
    store,          \* per session: its st.session_state (empty before its first run)
    own_sum,        \* per session: sum of the rule's deltas of its own decisions
    own_count       \* per session: number of its own submits

\* One call of plot_chart (used by SpecChart only)
VARIABLES
    chart_kind,     \* the argument of the call (chart_type)
    steps,          \* the 10 values np.random.normal returns
    chart           \* what the call has drawn (NoChart before the call)

gamevars == <<session_state, entry_widget, exit_widget, expanded, page, last_op, history>>
sessvars == <<store, own_sum, own_count>>
chartvars == <<chart_kind, steps, chart>>

vars == <<session_state, entry_widget, exit_widget, expanded, page, last_op, history,
          store, own_sum, own_count, chart_kind, steps, chart>>

(***************************************************************************)
(* Module-level data                                                       *)
(***************************************************************************)

\* concepts (insertion order of the dict)
concepts == <<
    [key |-> "Liquidity Grab",
     val |-> "A liquidity grab happens when price moves beyond a recent high/low to trap traders, then reverses."],
    [key |-> "FVG",
     val |-> "Fair Value Gap (FVG) is an imbalance between buyers and sellers visible as a gap in price."],
    [key |-> "BOS",
     val |-> "Break of Structure (BOS) occurs when price breaks a key high or low, indicating a trend change."],
    [key |-> "ORB",
     val |-> "Opening Range Breakout (ORB) is a strategy using the high and low of the first few minutes after market open."] >>

scenarios == <<
    [name |-> "Liquidity Grab - Short Setup",
     description |-> "Price swept above previous high and closed back inside range.",
     entry |-> "short",
     good_exit |-> "at previous low",
     bad_exit |-> "holding through reversal",
     chart |-> "liquidity"],
    [name |-> "FVG Long Setup",
     description |-> "Price pulled into FVG and bounced.",
     entry |-> "long",
     good_exit |-> "at supply zone",
     bad_exit |-> "holding through FVG close",
     chart |-> "fvg"],
    [name |-> "BOS Confirmation",
     description |-> "Structure broke to upside after a higher low.",
     entry |-> "long",
     good_exit |-> "at next swing high",
     bad_exit |-> "entering before BOS",
     chart |-> "bos"],
    [name |-> "ORB Failure",
     description |-> "Price broke opening range high but reversed hard.",
     entry |-> "long",
     good_exit |-> "quick scalp on breakout",
     bad_exit |-> "holding during pullback",
     chart |-> "orb"] >>

\* options of the two radios; a radio's initial value is its first option
EntryOptions == <<"long", "short", "skip">>
ExitOptions == <<"smart", "greedy">>

InitialBalance == 10000
InitialIndex == 0
WrongEntryLoss == 300
SmartExitGain == 500
PoorExitLoss == 200
ProfitThreshold == 10000

Range(s) == {s[i] : i \in DOMAIN s}

\* one element of the rendered page
Elem(el, text, arg, num) == [el |-> el, text |-> text, arg |-> arg, num |-> num]

(***************************************************************************)
(* The script                                                              *)
(***************************************************************************)

\* mutant: the state is re-initialised on every run of the script
InitSessionStateAlways(ss) ==
    [k \in DOMAIN ss \cup {"balance", "scenario_index"} |->
        IF k = "balance" THEN InitialBalance
        ELSE IF k = "scenario_index" THEN InitialIndex
        ELSE ss[k]]

\* "Game state": a key is set only when the session does not have it yet
InitSessionState(ss) ==
    [k \in DOMAIN ss \cup {"balance", "scenario_index"} |->
        IF k \in DOMAIN ss THEN ss[k]
        ELSE IF k = "balance" THEN InitialBalance
        ELSE InitialIndex]

\* plot_chart: the figure handed to st.pyplot, identified by its title
ChartTitle(chart_type) ==
    CASE chart_type = "liquidity" -> "Liquidity Grab Example"
      [] chart_type = "fvg" -> "FVG Example"
      [] chart_type = "bos" -> "Break of Structure (BOS)"
      [] chart_type = "orb" -> "Opening Range Breakout (ORB)"
      [] OTHER -> ""

plot_chart(chart_type) == Elem("pyplot", ChartTitle(chart_type), chart_type, 0)

\* mutant: the exit strategy is looked at before the entry direction
DecideExitFirst(scenario, entry, exit_choice, balance) ==
    IF entry = "skip"
    THEN [result |-> "Skipped the trade.", balance |-> balance]
    ELSE IF exit_choice = "smart"
    THEN [result |-> "Smart exit at " \o scenario.good_exit \o "!",
          balance |-> balance + SmartExitGain]
    ELSE IF entry # scenario.entry
    THEN [result |-> "Wrong entry type. You entered against the setup.",
          balance |-> balance - WrongEntryLoss]
    ELSE [result |-> "Poor exit at " \o scenario.bad_exit \o "!",
          balance |-> balance - PoorExitLoss]

\* mutant: skip is not recognised before the direction is compared
DecideSkipLate(scenario, entry, exit_choice, balance) ==
    IF entry # scenario.entry
    THEN [result |-> "Wrong entry type. You entered against the setup.",
          balance |-> balance - WrongEntryLoss]
    ELSE IF entry = "skip"
    THEN [result |-> "Skipped the trade.", balance |-> balance]
    ELSE IF exit_choice = "smart"
    THEN [result |-> "Smart exit at " \o scenario.good_exit \o "!",
          balance |-> balance + SmartExitGain]
    ELSE [result |-> "Poor exit at " \o scenario.bad_exit \o "!",
          balance |-> balance - PoorExitLoss]

\* mutant: the two exit labels are swapped in the messages
DecideSwappedLabels(scenario, entry, exit_choice, balance) ==
    IF entry = "skip"
    THEN [result |-> "Skipped the trade.", balance |-> balance]
    ELSE IF entry # scenario.entry
    THEN [result |-> "Wrong entry type. You entered against the setup.",
          balance |-> balance - WrongEntryLoss]
    ELSE IF exit_choice = "smart"
    THEN [result |-> "Smart exit at " \o scenario.bad_exit \o "!",
          balance |-> balance + SmartExitGain]
    ELSE [result |-> "Poor exit at " \o scenario.good_exit \o "!",
          balance |-> balance - PoorExitLoss]

\* mutant: the exit branch is a separate if, not an elif of the entry checks
DecideIfNotElif(scenario, entry, exit_choice, balance) ==
    LET afterEntry ==
            IF entry = "skip" THEN balance
            ELSE IF entry # scenario.entry THEN balance - WrongEntryLoss
            ELSE balance
    IN IF exit_choice = "smart"
       THEN [result |-> "Smart exit at " \o scenario.good_exit \o "!",
             balance |-> afterEntry + SmartExitGain]
       ELSE [result |-> "Poor exit at " \o scenario.bad_exit \o "!",
             balance |-> afterEntry - PoorExitLoss]

\* the if/elif chain under "Submit Decision": the message and the new balance
Decide(scenario, entry, exit_choice, balance) ==
    IF entry = "skip"
    THEN [result |-> "Skipped the trade.", balance |-> balance]
    ELSE IF entry # scenario.entry
    THEN [result |-> "Wrong entry type. You entered against the setup.",
          balance |-> balance - WrongEntryLoss]
    ELSE IF exit_choice = "smart"
    THEN [result |-> "Smart exit at " \o scenario.good_exit \o "!",
          balance |-> balance + SmartExitGain]
    ELSE [result |-> "Poor exit at " \o scenario.bad_exit \o "!",
          balance |-> balance - PoorExitLoss]

\* mutant: the list is walked from its end
CurrentScenarioReversed(ss) == scenarios[Len(scenarios) - ss["scenario_index"]]

\* mutant: the scenario after the displayed one is taken (wrapping round)
CurrentScenarioOffByOne(ss) == scenarios[((ss["scenario_index"] + 1) % Len(scenarios)) + 1]

\* scenario = scenarios[st.session_state.scenario_index]
CurrentScenario(ss) == scenarios[ss["scenario_index"] + 1]

\* mutant: a free-text input in place of the radio, any value is taken
RadioAcceptsAny(options, c) == TRUE

\* st.radio(label, options): the widget can only take one of its options
RadioAccepts(options, c) == c \in Range(options)

\* mutant: the last scenario is never shown
HasScenarioOffByOne(ss) == ss["scenario_index"] < Len(scenarios) - 1

\* the guard of the playing branch of show_game
HasScenario(ss) == ss["scenario_index"] < Len(scenarios)

\* mutant: the index moves on by two
AdvanceByTwo(ss) == [ss EXCEPT !["scenario_index"] = @ + 2]

\* st.session_state.scenario_index += 1
Advance(ss) == [ss EXCEPT !["scenario_index"] = @ + 1]

\* mutant: the decision is scored on every run, pressed or not
PressedAlways(button) == TRUE

\* st.button("Submit Decision"): true only in the run its click triggered
Pressed(button) == button

\* mutant: a break-even balance counts as a profit
ProfitableOrEven(balance) == balance >= ProfitThreshold

\* the comparison that picks the Game Over message
Profitable(balance) == balance > ProfitThreshold

\* the part of the page every run emits: title, balance, concept glossary
PageHead(ss) ==
    << Elem("title", "Stock Market Game with Visual Learning", "", 0),
       Elem("subheader", "Balance: $", "", ss["balance"]),
       Elem("markdown", "---", "", 0),
       Elem("subheader", "Market Concepts", "", 0) >>
    \o [i \in 1..Len(concepts) |-> Elem("expander", concepts[i].key, concepts[i].val, 0)]
    \o << Elem("markdown", "---", "", 0) >>

\* the Game Over branch of show_game
GameOverElems(ss) ==
    << Elem("header", "Game Over", "", 0),
       Elem("subheader", "Final Balance: $", "", ss["balance"]),
       IF Profitable(ss["balance"])
       THEN Elem("success", "Well done! You made profitable decisions.", "", 0)
       ELSE Elem("error", "You need more practice. Review the concepts and try again.", "", 0) >>

\* show_game: one run of it.  ew, xw are the widget values the run reads,
\* button tells whether the run was triggered by a click on the button.
\* Yields the session state the run leaves, the elements it emitted, the
\* decision it scored (if any) and whether it ended in
\* st.experimental_rerun().
show_game(ss, ew, xw, button) ==
    IF HasScenario(ss)
    THEN LET idx == ss["scenario_index"]
             scenario == CurrentScenario(ss)
             entry == ew[idx]
             exit_choice == xw[idx]
             shown == PageHead(ss) \o
                      << Elem("header", scenario.name, "", 0),
                         Elem("write", scenario.description, "", 0),
                         plot_chart(scenario.chart),
                         Elem("radio", "Choose your entry:", entry, idx),
                         Elem("radio", "Choose your exit strategy:", exit_choice, idx),
                         Elem("button", "Submit Decision", "", 0) >>
         IN IF Pressed(button)
            THEN LET d == Decide(scenario, entry, exit_choice, ss["balance"])
                 IN [session_state |-> Advance([ss EXCEPT !["balance"] = d.balance]),
                     page |-> shown \o << Elem("success", d.result, "", 0) >>,
                     scored |-> << [index |-> idx, entry |-> entry,
                                    exit_choice |-> exit_choice, result |-> d.result] >>,
                     rerun |-> TRUE]
            ELSE [session_state |-> ss, page |-> shown, scored |-> << >>, rerun |-> FALSE]
    ELSE [session_state |-> ss,
          page |-> PageHead(ss) \o GameOverElems(ss),
          scored |-> << >>,
          rerun |-> FALSE]

\* one execution of the script file from the top
RunScript(ss, ew, xw, button) == show_game(InitSessionState(ss), ew, xw, button)

\* One user interaction: the script runs; a run that ends in
\* st.experimental_rerun() is abandoned and the script runs again at once,
\* this time with the button not pressed.  The elements of the last run
\* replace the page.
HandleEvent(ss, ew, xw, button) ==
    LET first == RunScript(ss, ew, xw, button)
    IN IF first.rerun
       THEN [RunScript(first.session_state, ew, xw, FALSE) EXCEPT !.scored = first.scored]
       ELSE first

(***************************************************************************)
(* State machine                                                           *)
(***************************************************************************)

balance == session_state["balance"]
scenario_index == session_state["scenario_index"]

NoState == [k \in {} |-> 0]

\* number of sessions of SpecSessions
MaxSessions == 2
Sessions == 1..MaxSessions

\* no session has connected yet
SessionsInit ==
    /\ store = [s \in Sessions |-> NoState]
    /\ own_sum = [s \in Sessions |-> 0]
    /\ own_count = [s \in Sessions |-> 0]

NoChart == [title |-> "", price |-> << >>, hlines |-> << >>, spans |-> << >>]

\* plot_chart is not being looked at
ChartIdle ==
    /\ chart_kind = ""
    /\ steps = << >>
    /\ chart = NoChart

\* a new session: every radio at its first option, the script has run once
GameInit ==
    LET ew == [i \in 0..(Len(scenarios) - 1) |-> EntryOptions[1]]
        xw == [i \in 0..(Len(scenarios) - 1) |-> ExitOptions[1]]
        r == HandleEvent(NoState, ew, xw, FALSE)
    IN /\ session_state = r.session_state
       /\ entry_widget = ew
       /\ exit_widget = xw
       /\ expanded = {}
       /\ page = r.page
       /\ last_op = "open"
       /\ history = << >>

Init == GameInit /\ SessionsInit /\ ChartIdle

OnPage(el) == \E i \in DOMAIN page : page[i].el = el

\* the keys (scenario numbers) of the radios with this label on the page
RadioKeys(label) ==
    {page[i].num : i \in {j \in DOMAIN page : page[j].el = "radio" /\ page[j].text = label}}

\* the user presses "Submit Decision"
SubmitDecision ==
    /\ OnPage("button")
    /\ LET r == HandleEvent(session_state, entry_widget, exit_widget, TRUE)
       IN /\ session_state' = r.session_state
          /\ page' = r.page
          /\ history' = history \o r.scored
    /\ last_op' = "submit"
    /\ UNCHANGED <<entry_widget, exit_widget, expanded>>
    /\ UNCHANGED <<sessvars, chartvars>>

\* what a user may try to put into a choice input: the offered options and
\* values that are none of them
EntryInputs == Range(EntryOptions) \cup {"hold", ""}
ExitInputs == Range(ExitOptions) \cup {"hold", ""}

\* the user picks another option of the entry radio
SelectEntry ==
    /\ \E k \in RadioKeys("Choose your entry:"), c \in EntryInputs :
         /\ RadioAccepts(EntryOptions, c)
         /\ c # entry_widget[k]
         /\ entry_widget' = [entry_widget EXCEPT ![k] = c]
    /\ LET r == HandleEvent(session_state, entry_widget', exit_widget, FALSE)
       IN /\ session_state' = r.session_state
          /\ page' = r.page
    /\ last_op' = "select_entry"
    /\ UNCHANGED <<exit_widget, expanded, history>>
    /\ UNCHANGED <<sessvars, chartvars>>

\* the user picks the other option of the exit radio
SelectExit ==
    /\ \E k \in RadioKeys("Choose your exit strategy:"), c \in ExitInputs :
         /\ RadioAccepts(ExitOptions, c)
         /\ c # exit_widget[k]
         /\ exit_widget' = [exit_widget EXCEPT ![k] = c]
    /\ LET r == HandleEvent(session_state, entry_widget, exit_widget', FALSE)
       IN /\ session_state' = r.session_state
          /\ page' = r.page
    /\ last_op' = "select_exit"
    /\ UNCHANGED <<entry_widget, expanded, history>>
    /\ UNCHANGED <<sessvars, chartvars>>

\* the user asks for a rerun of the page (no widget changed)
RerunPage ==
    /\ LET r == HandleEvent(session_state, entry_widget, exit_widget, FALSE)
       IN /\ session_state' = r.session_state
          /\ page' = r.page
    /\ last_op' = "rerun"
    /\ UNCHANGED <<entry_widget, exit_widget, expanded, history>>
    /\ UNCHANGED <<sessvars, chartvars>>

\* the user opens or closes a concept expander: handled in the browser,
\* the script does not run
ToggleConcept ==
    /\ \E i \in DOMAIN concepts :
         expanded' = IF concepts[i].key \in expanded
                     THEN expanded \ {concepts[i].key}
                     ELSE expanded \cup {concepts[i].key}
    /\ last_op' = "expand"
    /\ UNCHANGED <<session_state, entry_widget, exit_widget, page, history>>
    /\ UNCHANGED <<sessvars, chartvars>>

Next ==
    \/ SubmitDecision
    \/ SelectEntry
    \/ SelectExit
    \/ RerunPage
    \/ ToggleConcept

Spec == Init /\ [][Next]_vars

\* The steps that run the script.  Opening a concept is left out: it is
\* handled in the browser and touches nothing but the set of open expanders.
NextPlay ==
    \/ SubmitDecision
    \/ SelectEntry
    \/ SelectExit
    \/ RerunPage

\* a user who keeps pressing "Submit Decision" while it is offered
FairSpec == Init /\ [][NextPlay]_vars /\ WF_vars(SubmitDecision)

TypeOK ==
    /\ DOMAIN session_state = {"balance", "scenario_index"}
    /\ balance \in Int
    /\ scenario_index \in Nat
    /\ entry_widget \in [0..(Len(scenarios) - 1) -> Range(EntryOptions)]
    /\ exit_widget \in [0..(Len(scenarios) - 1) -> Range(ExitOptions)]
    /\ expanded \subseteq {concepts[i].key : i \in DOMAIN concepts}
    /\ last_op \in {"open", "submit", "select_entry", "select_exit", "rerun", "expand"}

(***************************************************************************)
(* Properties                                                              *)
(***************************************************************************)

\* the decision submitted last, and the scenario it was scored against
LastDecision == history[Len(history)]
Submitted == last_op' = "submit"
ChosenEntry == entry_widget[scenario_index]
ChosenExit == exit_widget[scenario_index]
Scored == scenarios[scenario_index + 1]
Result == history'[Len(history')].result
WrongEntry(h) == h.entry \in {"long", "short"} /\ h.entry # scenarios[h.index + 1].entry
CorrectEntry(h) == h.entry = scenarios[h.index + 1].entry
Shown(el, text) == \E i \in DOMAIN page : page[i].el = el /\ page[i].text = text
GameOverShown == Shown("header", "Game Over")
WellDoneShown == Shown("success", "Well done! You made profitable decisions.")
ReviewShown == Shown("error", "You need more practice. Review the concepts and try again.")

\* C1: a submit whose entry is long or short and is not the scenario's
\* correct entry takes exactly 300 off the balance and yields the "Wrong
\* entry type" message, whatever the scenario and whatever the exit choice.
C1_WrongEntryCosts300 ==
    [][(Submitted /\ ChosenEntry \in {"long", "short"} /\ ChosenEntry # Scored.entry)
        => /\ balance' = balance - 300
           /\ Result = "Wrong entry type. You entered against the setup."]_vars

\* C1 witness: a session of four wrong entries, made with both exit choices
C1_Witness ==
    /\ Len(history) = 4
    /\ \A i \in 1..4 : WrongEntry(history[i])
    /\ {history[i].exit_choice : i \in 1..4} = {"smart", "greedy"}
    /\ balance = 10000 - 4 * 300

\* C2: a submit with entry skip leaves the balance as it is, yields the
\* message "Skipped the trade." and still moves scenario_index on by one,
\* whatever the scenario and whatever the exit choice.
C2_SkipIsFree ==
    [][(Submitted /\ ChosenEntry = "skip")
        => /\ balance' = balance
           /\ Result = "Skipped the trade."
           /\ scenario_index' = scenario_index + 1]_vars

\* C2 witness: all four scenarios skipped, with both exit choices
C2_Witness ==
    /\ Len(history) = 4
    /\ \A i \in 1..4 : history[i].entry = "skip"
    /\ {history[i].exit_choice : i \in 1..4} = {"smart", "greedy"}
    /\ scenario_index = 4

\* C3: a submit with the scenario's correct entry adds 500 on a smart exit
\* and takes 200 off on a greedy exit, and the message carries the good_exit
\* (resp. bad_exit) label of the scenario that was scored.
C3_CorrectEntryByExit ==
    [][(Submitted /\ ChosenEntry = Scored.entry)
        => /\ ChosenExit = "smart" =>
                /\ balance' = balance + 500
                /\ Result = "Smart exit at " \o Scored.good_exit \o "!"
           /\ ChosenExit = "greedy" =>
                /\ balance' = balance - 200
                /\ Result = "Poor exit at " \o Scored.bad_exit \o "!"]_vars

\* C3 witness: four correct entries, exits of both kinds, labels of the
\* first and of the last scenario in the messages
C3_Witness ==
    /\ Len(history) = 4
    /\ \A i \in 1..4 : CorrectEntry(history[i])
    /\ history[1].result = "Smart exit at at previous low!"
    /\ history[4].result = "Poor exit at holding during pullback!"
    /\ {history[i].exit_choice : i \in 1..4} = {"smart", "greedy"}

\* C4: every submit moves scenario_index on by exactly one; the number of
\* submits made equals scenario_index and never exceeds 4; at
\* scenario_index 4 the page offers no scenario and no submit button, and
\* no submit happens from there.
C4_OneStepPerSubmit ==
    /\ [](/\ Len(history) = scenario_index
          /\ Len(history) <= 4
          /\ scenario_index = 4 =>
                /\ ~OnPage("button")
                /\ ~OnPage("radio")
                /\ ~OnPage("pyplot"))
    /\ [][Submitted => (scenario_index < 4 /\ scenario_index' = scenario_index + 1)]_vars

\* C4 witness: the fourth submit has been made
C4_Witness ==
    /\ Len(history) = 4
    /\ last_op = "submit"
    /\ scenario_index = 4

\* C5: scenario_index stays within 0..4, and the Game Over screen is what
\* the page shows exactly when scenario_index is 4.
C5_IndexRange ==
    /\ scenario_index \in 0..4
    /\ GameOverShown <=> scenario_index = 4
    /\ GameOverShown <=> ~OnPage("button")

\* C5 witness: the Game Over screen
C5_Witness == GameOverShown /\ scenario_index = 4

\* the change of balance the scoring rule states for one decision
RuleDelta(h) ==
    IF h.entry = "skip" THEN 0
    ELSE IF h.entry # scenarios[h.index + 1].entry THEN 0 - 300
    ELSE IF h.exit_choice = "smart" THEN 500
    ELSE 0 - 200

RECURSIVE SumDeltas(_)
SumDeltas(hs) == IF hs = << >> THEN 0 ELSE RuleDelta(Head(hs)) + SumDeltas(Tail(hs))

\* C6: the balance is 10000 plus the sum of the deltas of the decisions
\* submitted so far, this balance is the one the page displays, and the
\* Game Over screen shows it as the final balance.
C6_BalanceIsSum ==
    /\ balance = 10000 + SumDeltas(history)
    /\ \E i \in DOMAIN page :
          page[i] = Elem("subheader", "Balance: $", "", 10000 + SumDeltas(history))
    /\ GameOverShown =>
          \E i \in DOMAIN page :
             page[i] = Elem("subheader", "Final Balance: $", "", 10000 + SumDeltas(history))

\* C6 witness: a finished session that used three different deltas
C6_Witness ==
    /\ GameOverShown
    /\ {RuleDelta(history[i]) : i \in DOMAIN history} = {500, 0 - 300, 0 - 200}
    /\ balance = 10000 + 500 + 500 - 300 - 200

\* C7: "Well done" is on the page exactly when the game is over with a
\* balance above 10000, the review message exactly when the game is over
\* with a balance of 10000 or less; neither shows while playing.
C7_VerdictByBalance ==
    /\ WellDoneShown <=> (scenario_index = 4 /\ balance > 10000)
    /\ ReviewShown <=> (scenario_index = 4 /\ balance <= 10000)

\* C7 witness: a game that ends at exactly 10000 gets the review message
C7_Witness == scenario_index = 4 /\ balance = 10000 /\ ReviewShown /\ ~WellDoneShown

\* C8: only a submit takes the session from Playing to GameOver, and once
\* scenario_index is 4 no step changes scenario_index or balance.
C8_GameOverAbsorbing ==
    [][/\ (scenario_index < 4 /\ scenario_index' = 4) => Submitted
       /\ scenario_index = 4 => (scenario_index' = 4 /\ balance' = balance)]_vars

\* C8 witness: the page was rerun on the Game Over screen
C8_Witness == scenario_index = 4 /\ last_op = "rerun" /\ GameOverShown

\* C9: after a submit the page the user sees contains the result banner
\* with the message the scoring rule returned.
C9_ResultDisplayed ==
    last_op = "submit" => Shown("success", LastDecision.result)

\* C10: balance and scenario_index change only in a submit: a rerun (which
\* renders the page and draws the chart anew), a change of either radio and
\* the opening of a concept leave both as they are.
C10_OnlySubmitMutates ==
    [][~Submitted => (balance' = balance /\ scenario_index' = scenario_index)]_vars

\* C10 witness: a radio was changed in a session whose balance had moved
C10_Witness ==
    /\ last_op \in {"select_entry", "select_exit"}
    /\ scenario_index = 2
    /\ balance # 10000
    /\ OnPage("pyplot")

\* the order of the scenarios the list is said to have: chart kind, entry
ListedOrder ==
    << <<"liquidity", "short">>, <<"fvg", "long">>, <<"bos", "long">>, <<"orb", "long">> >>

\* the message the scoring rule states for decision h scored against sc
RuleMessage(sc, h) ==
    IF h.entry = "skip" THEN "Skipped the trade."
    ELSE IF h.entry # sc.entry THEN "Wrong entry type. You entered against the setup."
    ELSE IF h.exit_choice = "smart" THEN "Smart exit at " \o sc.good_exit \o "!"
    ELSE "Poor exit at " \o sc.bad_exit \o "!"

\* C12: the k-th submit of a session is scored against the k-th scenario of
\* the list liquidity/short, fvg/long, bos/long, orb/long: its index is k-1
\* and its message is the rule's message for that scenario; so no scenario
\* is scored twice and none is passed over.  While playing, the page shows
\* the scenario that the next submit will be scored against.
C12_ScoredInOrder ==
    /\ \A k \in DOMAIN history :
          /\ history[k].index = k - 1
          /\ <<scenarios[k].chart, scenarios[k].entry>> = ListedOrder[k]
          /\ history[k].result = RuleMessage(scenarios[k], history[k])
    /\ scenario_index < 4 =>
          /\ Shown("header", scenarios[Len(history) + 1].name)
          /\ Shown("pyplot", ChartTitle(ListedOrder[Len(history) + 1][1]))

\* C12 witness: four submits, each with the correct entry of its scenario
\* (short, long, long, long) and a smart exit
C12_Witness ==
    /\ Len(history) = 4
    /\ \A k \in 1..4 : history[k].entry = ListedOrder[k][2] /\ history[k].exit_choice = "smart"
    /\ balance = 10000 + 4 * 500

\* C13: the first submit of a session, made with entry long and exit smart,
\* starts from balance 10000 and scenario_index 0, is scored as a wrong
\* entry, and leaves balance 9700 and scenario_index 1.
C13_ExampleRun ==
    [][(Submitted /\ history = << >> /\ ChosenEntry = "long" /\ ChosenExit = "smart")
        => /\ balance = 10000 /\ scenario_index = 0
           /\ Result = "Wrong entry type. You entered against the setup."
           /\ balance' = 9700 /\ scenario_index' = 1]_vars

\* C13 witness: the state right after that submit
C13_Witness ==
    /\ last_op = "submit"
    /\ Len(history) = 1
    /\ history[1].entry = "long" /\ history[1].exit_choice = "smart"
    /\ balance = 9700 /\ scenario_index = 1

\* C14: every decision that was scored has an entry among long, short, skip
\* and an exit among smart, greedy, and so do the values the radios hold;
\* a value outside these sets never gets into a radio.
C14_OnlyEnumeratedChoices ==
    /\ \A k \in DOMAIN history :
          /\ history[k].entry \in {"long", "short", "skip"}
          /\ history[k].exit_choice \in {"smart", "greedy"}
    /\ \A i \in DOMAIN entry_widget : entry_widget[i] \in {"long", "short", "skip"}
    /\ \A i \in DOMAIN exit_widget : exit_widget[i] \in {"smart", "greedy"}

\* C14 witness: a finished session in which every option was submitted
C14_Witness ==
    /\ Len(history) = 4
    /\ {history[k].entry : k \in 1..4} = {"long", "short", "skip"}
    /\ {history[k].exit_choice : k \in 1..4} = {"smart", "greedy"}

\* C16: the balance lies between 10000 - 300*scenario_index and
\* 10000 + 500*scenario_index and differs from 10000 by a multiple of 100;
\* hence it stays within 8800..12000 and is never negative.
C16_BalanceBounds ==
    /\ 10000 - 300 * scenario_index <= balance
    /\ balance <= 10000 + 500 * scenario_index
    /\ (balance - 10000) % 100 = 0
    /\ balance \in 8800..12000
    /\ balance >= 0

\* C16 witness: the lowest balance, after four wrong entries
C16_Witness == scenario_index = 4 /\ balance = 8800 /\ GameOverShown

SmartWin(h) == CorrectEntry(h) /\ h.exit_choice = "smart"

\* C17: "Well done" shows only in a session with at least one correct entry
\* with a smart exit; a finished session without one shows the review
\* message.
C17_WellDoneNeedsSmartWin ==
    /\ WellDoneShown => \E k \in DOMAIN history : SmartWin(history[k])
    /\ (scenario_index = 4 /\ \A k \in DOMAIN history : ~SmartWin(history[k]))
          => (ReviewShown /\ ~WellDoneShown)

\* C17 witness: four skips end at exactly 10000 with the review message
C17_Witness ==
    /\ Len(history) = 4
    /\ \A k \in 1..4 : history[k].entry = "skip"
    /\ balance = 10000
    /\ ReviewShown

\* C18: with a user who keeps pressing submit while a scenario is displayed,
\* the session eventually is at scenario_index 4 and stays there for ever;
\* and in every Playing state a submit is possible.
C18_EventuallyGameOver ==
    /\ <>[](scenario_index = 4)
    /\ [](scenario_index < 4 => ENABLED SubmitDecision)

\* C18 witness: Game Over reached by four submits, no button left to press
C18_Witness ==
    /\ GameOverShown
    /\ Len(history) = 4
    /\ ~OnPage("button")
    /\ last_op = "rerun"

(***************************************************************************)
(* Several sessions                                                        *)
(***************************************************************************)

\* mutant: one process-wide state that every session reads and writes
SlotShared(s) == 1

\* st.session_state: the state of the session the script is running for
Slot(s) == s

Connected(s) == DOMAIN store[Slot(s)] # {}

\* the radios of a session, all holding the same value
AllAt(c) == [i \in 0..(Len(scenarios) - 1) |-> c]

\* the page session s is looking at
PageOf(s) == HandleEvent(store[Slot(s)], AllAt(EntryOptions[1]), AllAt(ExitOptions[1]), FALSE).page

\* a browser connects: the script runs for the first time in session s
Connect(s) ==
    /\ ~Connected(s)
    /\ LET r == HandleEvent(store[Slot(s)], AllAt(EntryOptions[1]), AllAt(ExitOptions[1]), FALSE)
       IN store' = [store EXCEPT ![Slot(s)] = r.session_state]
    /\ UNCHANGED <<own_sum, own_count, gamevars, chartvars>>

\* the user of session s sets the two radios and presses "Submit Decision"
SubmitIn(s) ==
    /\ Connected(s)
    /\ LET pg == PageOf(s) IN \E i \in DOMAIN pg : pg[i].el = "button"
    /\ \E e \in EntryInputs, x \in ExitInputs :
         /\ RadioAccepts(EntryOptions, e)
         /\ RadioAccepts(ExitOptions, x)
         /\ LET r == HandleEvent(store[Slot(s)], AllAt(e), AllAt(x), TRUE)
            IN /\ store' = [store EXCEPT ![Slot(s)] = r.session_state]
               /\ own_sum' = [own_sum EXCEPT ![s] = @ + SumDeltas(r.scored)]
               /\ own_count' = [own_count EXCEPT ![s] = @ + Len(r.scored)]
    /\ UNCHANGED <<gamevars, chartvars>>

\* the user of session s asks for a rerun
RerunIn(s) ==
    /\ Connected(s)
    /\ LET r == HandleEvent(store[Slot(s)], AllAt(EntryOptions[1]), AllAt(ExitOptions[1]), FALSE)
       IN store' = [store EXCEPT ![Slot(s)] = r.session_state]
    /\ UNCHANGED <<own_sum, own_count, gamevars, chartvars>>

\* the browser of session s goes away: its session state is destroyed
CloseSession(s) ==
    /\ Connected(s)
    /\ store' = [store EXCEPT ![Slot(s)] = NoState]
    /\ own_sum' = [own_sum EXCEPT ![s] = 0]
    /\ own_count' = [own_count EXCEPT ![s] = 0]
    /\ UNCHANGED <<gamevars, chartvars>>

NextSessions ==
    \/ \E s \in Sessions : Connect(s)
    \/ \E s \in Sessions : SubmitIn(s)
    \/ \E s \in Sessions : RerunIn(s)
    \/ \E s \in Sessions : CloseSession(s)

SpecSessions == Init /\ [][NextSessions]_vars

\* C11: a submit of one session leaves the state of every other session as
\* it is, no step changes the state of two sessions, and each session's
\* balance is 10000 plus the deltas of its own decisions, its
\* scenario_index the number of its own submits, however the sessions'
\* steps interleave.
C11_SessionsIsolated ==
    /\ [](\A s \in Sessions :
            DOMAIN store[s] # {} =>
               /\ store[s]["balance"] = 10000 + own_sum[s]
               /\ store[s]["scenario_index"] = own_count[s])
    /\ [][\A s, t \in Sessions :
            t # s =>
               /\ own_count'[s] = own_count[s] + 1 => store'[t] = store[t]
               /\ store'[s] = store[s] \/ store'[t] = store[t]]_vars

\* C11 witness: two finished sessions with different final balances
C11_Witness ==
    /\ store[1] = [balance |-> 12000, scenario_index |-> 4]
    /\ store[2] = [balance |-> 8800, scenario_index |-> 4]
    /\ own_count[1] = 4 /\ own_count[2] = 4

(***************************************************************************)
(* plot_chart: the price series and the reference lines it draws           *)
(***************************************************************************)

\* np.random.normal(loc=100, scale=1, size=10)
ChartPoints == 10
StepMean == 100
\* the draws looked at lie within StepSpread of the mean
StepSpread == 1
StepValues == (StepMean - StepSpread)..(StepMean + StepSpread)

ChartKinds == {scenarios[i].chart : i \in DOMAIN scenarios}

RECURSIVE SumTo(_, _)
SumTo(st, n) == IF n = 0 THEN 0 ELSE st[n] + SumTo(st, n - 1)

\* .cumsum(): element i (counted from 0) is the sum of the first i+1 draws
Cumsum(st) == [i \in 0..(Len(st) - 1) |-> SumTo(st, i + 1)]

Min(S) == CHOOSE m \in S : \A n \in S : m <= n
Max(S) == CHOOSE m \in S : \A n \in S : m >= n

HLine(label, y) == [label |-> label, y |-> y]

\* the body of plot_chart: the plotted series, the horizontal reference
\* lines (axhline) and the shaded bands (axvspan, in tenths of an x unit)
PlotSeries(chart_type, st) ==
    LET base == Cumsum(st)
    IN CASE chart_type = "liquidity" ->
              LET price == [base EXCEPT ![6] = @ + 5, ![7] = @ - 6]
              IN [title |-> ChartTitle(chart_type),
                  price |-> price,
                  hlines |-> << HLine("Previous High", price[5]) >>,
                  spans |-> << >>]
         [] chart_type = "fvg" ->
              LET price == [base EXCEPT ![4] = @ + 5, ![5] = @ + 7, ![6] = @ + 3]
              IN [title |-> ChartTitle(chart_type),
                  price |-> price,
                  hlines |-> << >>,
                  spans |-> << [label |-> "FVG", from |-> 45, to |-> 55] >>]
         [] chart_type = "bos" ->
              LET price == [i \in DOMAIN base |-> IF i >= 5 THEN base[i] + 6 ELSE base[i]]
              IN [title |-> ChartTitle(chart_type),
                  price |-> price,
                  hlines |-> << HLine("Structure Break", price[4]) >>,
                  spans |-> << >>]
         [] chart_type = "orb" ->
              LET open_range == << Min({base[i] : i \in 0..2}), Max({base[i] : i \in 0..2}) >>
                  price == [i \in DOMAIN base |-> IF i >= 4 THEN base[i] - 4 ELSE base[i]]
              IN [title |-> ChartTitle(chart_type),
                  price |-> price,
                  hlines |-> << HLine("ORB Low", open_range[1]),
                                HLine("ORB High", open_range[2]) >>,
                  spans |-> << >>]
         [] OTHER ->
              [title |-> "", price |-> << >>, hlines |-> << >>, spans |-> << >>]

\* a call of plot_chart is about to be made, with some kind and some draws
InitChart ==
    /\ GameInit
    /\ SessionsInit
    /\ chart_kind \in ChartKinds
    /\ steps \in [1..ChartPoints -> StepValues]
    /\ chart = NoChart

\* the call
DrawChart ==
    /\ chart = NoChart
    /\ chart_kind \in ChartKinds
    /\ chart' = PlotSeries(chart_kind, steps)
    /\ UNCHANGED <<chart_kind, steps, gamevars, sessvars>>

NextChart == DrawChart

SpecChart == InitChart /\ [][NextChart]_vars

Drawn == chart.title # ""

\* C15: in every liquidity chart the price at index 6 is above the
\* "Previous High" line (the value at index 5) and the price at index 7 is
\* back at or below that line.
C15_SweepThenBackInside ==
    (Drawn /\ chart_kind = "liquidity") =>
        LET line == chart.hlines[1].y
        IN /\ chart.hlines[1].label = "Previous High"
           /\ line = chart.price[5]
           /\ chart.price[6] > line
           /\ chart.price[7] <= line

====
